---- MODULE Spec2Model ----
(***************************************************************************)
(* Blossom front end: the scanner of src/token.rs, the recursive-descent   *)
(* parser of src/ast.rs and the printer of src/pretty.rs, as one state     *)
(* machine.  A source text is a sequence of bytes, each written as a       *)
(* one-character string; offsets are byte offsets as in the source, so    *)
(* input[start..pos] of the source is SubSeq(input, start + 1, pos) here.  *)
(***************************************************************************)
EXTENDS Integers, Sequences, FiniteSets, TLC

VARIABLES
    pc,           \* which call of main.rs is running, or how it ended
    input,        \* token::Parser.input
    pos,          \* token::Parser.pos (byte offset)
    interner,     \* token::Parser.interner: interner[s] is the text of symbol s
    state,        \* token::Parser.state
    tokens,       \* token::Parser.tokens, moved into ast::Parser.tokens
    ast_pos,      \* ast::Parser.pos (token index)
    nodes,        \* ast::Parser.nodes, the arena
    definitions,  \* the local `definitions` of parse_program
    stack,        \* the call stack of the recursive descent, top first
    ret,          \* the value returned by the call that ended last
    buffer,       \* pretty::Printer.buffer
    round,        \* 1: the first pass; 2: the pass over the printed text
    original      \* the tree of the first pass, kept for the second

vars == <<pc, input, pos, interner, state, tokens, ast_pos, nodes, definitions,
          stack, ret, buffer, round, original>>

lexer_vars == <<input, pos, interner, state, tokens>>
ast_vars == <<ast_pos, nodes, definitions, stack, ret>>
round_vars == <<buffer, round, original>>

----------------------------------------------------------------------------
(* Bounds of the model.                                                    *)

MaxLen == 4
MaxTokens == 3

----------------------------------------------------------------------------
(* Characters.  A two-byte character is its lead byte followed by its      *)
(* continuation byte; Rust's &str holds well-formed UTF-8 only.            *)

Lead == "U+00E9/0"
Continuation == "U+00E9/1"

Letters ==
    {"a", "b", "c", "d", "e", "f", "g", "h", "i", "j", "k", "l", "m", "n", "o",
     "p", "q", "r", "s", "t", "u", "v", "w", "x", "y", "z", "E", "U", Lead}

Digits == {"0", "1", "2", "3", "4", "5", "6", "7", "8", "9"}

is_whitespace(c) == c \in {" ", "\n", "\t"}

is_alphabetic(c) == c \in Letters

is_numeric(c) == c \in Digits

is_alphanumeric(c) == is_alphabetic(c) \/ is_numeric(c)

\* "+-*/<>:=,."
OperatorChars == {"+", "-", "*", "/", "<", ">", ":", "=", ",", "."}

\* "()[]{}"
DelimiterChars == {"(", ")", "[", "]", "{", "}"}

\* "+-*/<>:=,._()[]{};\""
UnknownEndChars == OperatorChars \cup DelimiterChars \cup {"_", ";", "\""}

\* The characters the bounded source texts are drawn from.
Alphabet ==
    {" ", "\n", "i", "f", "1", "_", ".", "=", "!", "{", "\"", ";", Lead, Continuation}

WellFormed(s) ==
    \A k \in 1..Len(s) :
        /\ s[k] = Lead => (k < Len(s) /\ s[k + 1] = Continuation)
        /\ s[k] = Continuation => (k > 1 /\ s[k - 1] = Lead)

Sources ==
    {s \in UNION {[1..n -> Alphabet] : n \in 0..MaxLen} : WellFormed(s)}

\* The program of main.rs.
MainSource ==
    <<"r", "e", "s", " ", ":", "=", " ", "3", "*", "i", "f", " ", "x", " ", ">",
      "1", "0", " ", "{", " ", "r", "e", "t", "u", "r", "n", " ", "x", "}", " ",
      "e", "l", "s", "e", " ", "{", " ", "r", "e", "t", "u", "r", "n", " ", "0",
      " ", "}", " ", "+", " ", "2">>

----------------------------------------------------------------------------
(* token.rs: the scanner.                                                  *)

Start == [tag |-> "Start", start |-> 0]
Eof == [tag |-> "Eof", start |-> 0]
In(tag, start) == [tag |-> tag, start |-> start]

SymbolKinds == {"Number", "Text", "Identifier", "Unknown"}

keyword(text) ==
    CASE text = <<"i", "f">> -> "If"
      [] text = <<"e", "l", "s", "e">> -> "Else"
      [] text = <<"f", "o", "r">> -> "For"
      [] text = <<"i", "n">> -> "In"
      [] text = <<"i", "m", "p", "o", "r", "t">> -> "Import"
      [] text = <<"a", "n", "d">> -> "And"
      [] text = <<"o", "r">> -> "Or"
      [] text = <<"n", "o", "t">> -> "Not"
      [] text = <<"r", "e", "t", "u", "r", "n">> -> "Return"
      [] text = <<"b", "r", "e", "a", "k">> -> "Break"
      [] text = <<"c", "o", "n", "t", "i", "n", "u", "e">> -> "Continue"
      [] text = <<"l", "o", "o", "p">> -> "Loop"
      [] text = <<"e", "x", "t", "e", "r", "n", "a", "l">> -> "External"
      [] OTHER -> "Identifier"

operator(text) ==
    CASE text = <<"+">> -> "Plus"
      [] text = <<"-">> -> "Minus"
      [] text = <<"*">> -> "Multiply"
      [] text = <<"/">> -> "Divide"
      [] text = <<"<">> -> "LessThan"
      [] text = <<">">> -> "GreaterThan"
      [] text = <<"=">> -> "Equal"
      [] text = <<"<", "=">> -> "LessThanOrEqual"
      [] text = <<">", "=">> -> "GreaterThanOrEqual"
      [] text = <<"=", "=">> -> "EqualEqual"
      [] text = <<"!", "=">> -> "NotEqual"
      [] text = <<":", "=">> -> "ColonEqual"
      [] text = <<":", ":">> -> "ColonColon"
      [] text = <<"-", ">">> -> "Arrow"
      [] text = <<",">> -> "Comma"
      [] text = <<".">> -> "Dot"
      [] OTHER -> "Unknown"

delimiter(text) ==
    CASE text = <<"(">> -> "LParen"
      [] text = <<")">> -> "RParen"
      [] text = <<"{">> -> "LBrace"
      [] text = <<"}">> -> "RBrace"
      [] text = <<"[">> -> "LBracket"
      [] text = <<"]">> -> "RBracket"
      [] OTHER -> "Unknown"

\* StringInterner::get_or_intern: the symbol of text, minted if new.
get_or_intern(table, text) ==
    IF \E s \in 1..Len(table) : table[s] = text
    THEN CHOOSE s \in 1..Len(table) : table[s] = text
    ELSE Len(table) + 1

\* The interner after get_or_intern(text).
interned(table, text) ==
    IF \E s \in 1..Len(table) : table[s] = text THEN table ELSE Append(table, text)

\* StringInterner::resolve: the text of a symbol, <<>> standing for None.
resolve(table, s) == IF s \in 1..Len(table) THEN table[s] ELSE <<>>

\* The states create_token has no token for.
Unreachable(st) == st.tag \in {"InComment", "Eof", "Start"}

token_kind(st, text) ==
    CASE st.tag = "InIdentifier" -> keyword(text)
      [] st.tag = "InOperator" -> operator(text)
      [] st.tag = "InDelimiter" -> delimiter(text)
      [] st.tag \in {"InNumber", "InDecimal"} -> "Number"
      [] st.tag = "InText" -> "Text"
      [] st.tag = "InUnknown" -> "Unknown"

\* token_span with the end one short.
token_span_short(st, p) == <<st.start, p - 1>>

\* The span create_token gives the token: (start, self.pos).
token_span(st, p) == <<st.start, p>>

\* token_text without the first character of the run.
token_text_inner(st, p) == SubSeq(input, st.start + 2, p)

\* The text create_token matches and interns: &self.input[start..self.pos].
token_text(st, p) == SubSeq(input, st.start + 1, p)

\* The token create_token pushes in state st with the cursor at p.
new_token(st, p, table) ==
    LET text == token_text(st, p)
        kind == token_kind(st, text)
    IN  [kind |-> kind,
         sym |-> IF kind \in SymbolKinds THEN get_or_intern(table, text) ELSE 0,
         span |-> token_span(st, p)]

\* Parser::create_token with the cursor at p, for a state that has a token.
create_token(p) ==
    LET text == token_text(state, p)
        kind == token_kind(state, text)
    IN  /\ tokens' = Append(tokens, new_token(state, p, interner))
        /\ interner' = IF kind \in SymbolKinds THEN interned(interner, text) ELSE interner

\* Parser::peek: "none" at the end of the input, "panic" where the slice
\* input[pos..] does not start on a character boundary.
peek ==
    IF pos >= Len(input) THEN "none"
    ELSE IF input[pos + 1] = Continuation THEN "panic"
    ELSE input[pos + 1]

\* eof_flush that leaves a text without its closing quote unflushed.
eof_flush_strict(st) == st.tag \notin {"Eof", "Start", "InText"}

\* The test of next() before the last create_token.
eof_flush(st) == st # Eof \/ st # Start

\* The arm of the match of next() that (st, c) selects, first match first.
match_arm(st, c) ==
    IF st.tag = "Start" THEN
        IF is_whitespace(c) THEN "skip"
        ELSE IF is_alphabetic(c) \/ c = "_" THEN "InIdentifier"
        ELSE IF is_numeric(c) THEN "InNumber"
        ELSE IF c \in OperatorChars THEN "InOperator"
        ELSE IF c \in DelimiterChars THEN "InDelimiter"
        ELSE IF c = "\"" THEN "InText"
        ELSE IF c = ";" THEN "InComment"
        ELSE "InUnknown"
    ELSE IF st.tag = "InUnknown" /\ (is_alphanumeric(c) \/ c \in UnknownEndChars)
        THEN "create_token"
    ELSE IF st.tag = "InIdentifier" /\ ~is_alphanumeric(c) /\ c # "_"
        THEN "create_token"
    ELSE IF st.tag = "InNumber" /\ c = "." THEN "decimal"
    ELSE IF st.tag \in {"InNumber", "InDecimal"} /\ ~is_numeric(c) /\ c # "_"
        THEN "create_token"
    ELSE IF st.tag = "InOperator" /\ c \notin OperatorChars THEN "create_token"
    ELSE IF st.tag = "InDelimiter" THEN "create_token"
    ELSE IF st.tag = "InText" /\ c = "\"" THEN "close_text"
    ELSE IF st.tag = "InComment" /\ c = "\n" THEN "comment_newline"
    ELSE "consume"

\* arm_state with the start offset read after the consume instead of
\* returned by it.
arm_state_late(st, arm, p) ==
    CASE arm \in {"InIdentifier", "InNumber", "InOperator", "InDelimiter",
                  "InText", "InComment", "InUnknown"} -> In(arm, p + 1)
      [] arm = "decimal" -> In("InDecimal", st.start)
      [] arm \in {"create_token", "close_text"} -> Start
      [] OTHER -> st

\* arm_state whose dot arm stays in InNumber, so that the next dot is
\* consumed as well.
arm_state_dots(st, arm, p) ==
    CASE arm \in {"InIdentifier", "InNumber", "InOperator", "InDelimiter",
                  "InText", "InComment", "InUnknown"} -> In(arm, p)
      [] arm = "decimal" -> In("InNumber", st.start)
      [] arm \in {"create_token", "close_text"} -> Start
      [] OTHER -> st

\* The state after the arm: the comment arm and the last arm leave it alone.
arm_state(st, arm, p) ==
    CASE arm \in {"InIdentifier", "InNumber", "InOperator", "InDelimiter",
                  "InText", "InComment", "InUnknown"} -> In(arm, p)
      [] arm = "decimal" -> In("InDecimal", st.start)
      [] arm \in {"create_token", "close_text"} -> Start
      [] OTHER -> st

Scanning == pc = "scan" /\ state # Eof

\* next() at the end of the input: the pending state is flushed, then Eof;
\* the loop of token::parse ends and the tokens and the interner are returned.
next_eof ==
    /\ Scanning
    /\ peek = "none"
    /\ IF eof_flush(state) /\ Unreachable(state)
       THEN /\ pc' = "token_panic"
            /\ UNCHANGED <<state, tokens, interner>>
       ELSE /\ pc' = "scanned"
            /\ state' = Eof
            /\ IF eof_flush(state)
               THEN create_token(pos)
               ELSE UNCHANGED <<tokens, interner>>
    /\ UNCHANGED <<input, pos, ast_vars, round_vars>>

\* next() where the cursor stands inside a character: the slice of peek panics.
next_not_boundary ==
    /\ Scanning
    /\ peek = "panic"
    /\ pc' = "token_panic"
    /\ UNCHANGED <<lexer_vars, ast_vars, round_vars>>

\* The arms that consume the character: the arms of Start, the dot of a
\* number, the newline of a comment and the last arm.
next_consume ==
    /\ Scanning
    /\ peek \notin {"none", "panic"}
    /\ LET arm == match_arm(state, peek)
       IN  /\ arm \notin {"create_token", "close_text"}
           /\ pos' = pos + 1
           /\ state' = arm_state(state, arm, pos)
    /\ UNCHANGED <<pc, input, tokens, interner, ast_vars, round_vars>>

\* The arms that end a token at a character they leave in place.
next_create_token ==
    /\ Scanning
    /\ peek \notin {"none", "panic"}
    /\ match_arm(state, peek) = "create_token"
    /\ create_token(pos)
    /\ state' = arm_state(state, "create_token", pos)
    /\ UNCHANGED <<pc, input, pos, ast_vars, round_vars>>

\* The closing quote of a text: consumed, then the token.
next_close_text ==
    /\ Scanning
    /\ peek \notin {"none", "panic"}
    /\ match_arm(state, peek) = "close_text"
    /\ pos' = pos + 1
    /\ create_token(pos + 1)
    /\ state' = arm_state(state, "close_text", pos)
    /\ UNCHANGED <<pc, input, ast_vars, round_vars>>

next ==
    \/ next_eof
    \/ next_not_boundary
    \/ next_consume
    \/ next_create_token
    \/ next_close_text

----------------------------------------------------------------------------
(* ast.rs: the parser.  An AstIdx is an index from 0 as in the source, so  *)
(* node idx of the arena is nodes[idx + 1].                                *)

None == -1

\* A node; the fields its kind does not have keep the values of blank.
blank ==
    [kind |-> "Error", sym |-> 0, lhs |-> None, rhs |-> None, op |-> "",
     cond |-> None, if_branch |-> None, else_branch |-> None,
     statements |-> <<>>, expr |-> None, span |-> <<0, 0>>]

\* The span parse_atom gives the node it saves: (self.pos, self.pos + 1).
atom_span(p) == <<p, p + 1>>

\* A frame of the call stack; the locals its function does not have keep
\* the values given here.
Frame(fn, at) ==
    [fn |-> fn, at |-> at, precedence |-> 0, lhs |-> None, op |-> "",
     cond |-> None, if_branch |-> None, statements |-> <<>>]

\* Parser::peak: the kind of the next token, "none" at the end.
peak == IF ast_pos < Len(tokens) THEN tokens[ast_pos + 1].kind ELSE "none"

\* Parser::get; the index of a Vec panics outside it.
get(idx) == nodes[idx + 1]

in_arena(idx) == idx \in 0..(Len(nodes) - 1)

\* consume that reads the token and leaves the cursor.
consume_stuck(p) == p

\* consume that skips the token after the one it returns.
consume_twice(p) == p + 2

\* The cursor after Parser::consume: self.pos += 1.
consume(p) == p + 1

\* atom_arm that takes an Unknown token for an Identifier.
atom_arm_lenient(kind) ==
    CASE kind = "Number" -> "Number"
      [] kind \in {"Identifier", "Unknown"} -> "Identifier"
      [] kind = "If" -> "If"
      [] kind = "LBrace" -> "LBrace"
      [] kind = "Return" -> "Return"
      [] OTHER -> "Error"

\* The arm of the match of parse_atom that a token kind selects.
atom_arm(kind) ==
    CASE kind = "Number" -> "Number"
      [] kind = "Identifier" -> "Identifier"
      [] kind = "If" -> "If"
      [] kind = "LBrace" -> "LBrace"
      [] kind = "Return" -> "Return"
      [] OTHER -> "Error"

\* save_ast returning the length after the push, without the - 1.
save_ast_len(arena) == Len(arena) + 1

\* The index save_ast returns for the node it pushes onto arena.
save_ast(arena) == Len(arena)

\* op_precedence without the arm of Multiply and Divide.
op_precedence_short(kind) ==
    CASE kind \in {"ColonEqual", "Equal"} -> 1
      [] kind \in {"Plus", "Minus"} -> 10
      [] kind \in {"LessThan", "GreaterThan", "LessThanOrEqual",
                   "GreaterThanOrEqual"} -> 30
      [] kind \in {"EqualEqual", "NotEqual"} -> 40
      [] kind \in {"Dot", "Arrow"} -> 50
      [] kind = "ColonColon" -> 60
      [] OTHER -> 0

\* The table of parse_binary_op; 0 for a token that ends the loop (every
\* entry of the table is above 0).
op_precedence(kind) ==
    CASE kind \in {"ColonEqual", "Equal"} -> 1
      [] kind \in {"Plus", "Minus"} -> 10
      [] kind \in {"Multiply", "Divide"} -> 20
      [] kind \in {"LessThan", "GreaterThan", "LessThanOrEqual",
                   "GreaterThanOrEqual"} -> 30
      [] kind \in {"EqualEqual", "NotEqual"} -> 40
      [] kind \in {"Dot", "Arrow"} -> 50
      [] kind = "ColonColon" -> 60
      [] OTHER -> 0

Parsing == pc = "parse" /\ stack # <<>>

top == Head(stack)

\* call_parse_expresion that climbs: it passes a precedence above the one
\* it is given.
call_parse_expresion_climb(rest, precedence) ==
    <<Frame("parse_atom", "start"),
      [Frame("parse_expresion", "lhs") EXCEPT !.precedence = precedence + 20]>> \o rest

\* A call of parse_expresion(precedence) from a caller whose frame is the
\* head of rest: parse_expresion calls parse_atom first.
call_parse_expresion(rest, precedence) ==
    <<Frame("parse_atom", "start"),
      [Frame("parse_expresion", "lhs") EXCEPT !.precedence = precedence]>> \o rest

\* The caller's frame, at its next place.
at(frame, place) == [frame EXCEPT !.at = place]

\* A call that ends by saving node: it returns the node's index.
return_node(node) ==
    /\ nodes' = Append(nodes, node)
    /\ ret' = save_ast(nodes)
    /\ stack' = Tail(stack)

\* parse_program: the loop, and the push of the expression it has parsed.
parse_program ==
    /\ Parsing
    /\ top.fn = "parse_program"
    /\ \/ /\ top.at = "loop"
          /\ peak # "none"
          /\ stack' = call_parse_expresion(<<at(top, "push")>>, 0)
          /\ UNCHANGED <<pc, definitions>>
       \/ /\ top.at = "loop"
          /\ peak = "none"
          /\ stack' = <<>>
          /\ pc' = "parsed"
          /\ UNCHANGED definitions
       \/ /\ top.at = "push"
          /\ definitions' = Append(definitions, ret)
          /\ stack' = <<at(top, "loop")>>
          /\ UNCHANGED pc
    /\ UNCHANGED <<lexer_vars, ast_pos, nodes, ret, round_vars>>

\* parse_expresion once parse_atom has returned lhs: it ends as the call
\* parse_binary_op(lhs, precedence).
parse_expresion ==
    /\ Parsing
    /\ top.fn = "parse_expresion"
    /\ stack' = <<[Frame("parse_binary_op", "loop") EXCEPT
                      !.lhs = ret, !.precedence = top.precedence]>> \o Tail(stack)
    /\ UNCHANGED <<pc, lexer_vars, ast_pos, nodes, definitions, ret, round_vars>>

\* parse_atom, from its call to the first call it makes or to its return.
\* consume indexes tokens[pos] and panics past the end.
parse_atom ==
    /\ Parsing
    /\ top.fn = "parse_atom"
    /\ top.at = "start"
    /\ IF ast_pos >= Len(tokens)
       THEN /\ pc' = "ast_panic"
            /\ UNCHANGED <<ast_pos, nodes, stack, ret>>
       ELSE LET token == tokens[ast_pos + 1]
                p == consume(ast_pos)
                arm == atom_arm(token.kind)
            IN  /\ ast_pos' = p
                /\ pc' = pc
                /\ CASE arm = "Number" ->
                          return_node([blank EXCEPT !.kind = "Number",
                              !.sym = token.sym, !.span = atom_span(p)])
                     [] arm = "Identifier" ->
                          return_node([blank EXCEPT !.kind = "Identifier",
                              !.sym = token.sym, !.span = atom_span(p)])
                     [] arm = "If" ->
                          /\ stack' = call_parse_expresion(
                                 <<at(top, "cond")>> \o Tail(stack), 0)
                          /\ UNCHANGED <<nodes, ret>>
                     [] arm = "LBrace" ->
                          /\ stack' = <<at(top, "block")>> \o Tail(stack)
                          /\ UNCHANGED <<nodes, ret>>
                     [] arm = "Return" ->
                          /\ stack' = call_parse_expresion(
                                 <<at(top, "return")>> \o Tail(stack), 0)
                          /\ UNCHANGED <<nodes, ret>>
                     [] OTHER ->
                          return_node([blank EXCEPT !.kind = "Error",
                              !.span = atom_span(p)])
    /\ UNCHANGED <<lexer_vars, definitions, round_vars>>

\* if_node with the two branches exchanged.
if_node_swapped(cond, if_branch, else_branch, p) ==
    [blank EXCEPT !.kind = "If", !.cond = cond, !.if_branch = else_branch,
        !.else_branch = if_branch, !.span = atom_span(p)]

\* The If node parse_atom saves with the cursor at p.
if_node(cond, if_branch, else_branch, p) ==
    [blank EXCEPT !.kind = "If", !.cond = cond, !.if_branch = if_branch,
        !.else_branch = else_branch, !.span = atom_span(p)]

\* The If arm of parse_atom after its calls of parse_expresion.
parse_atom_if ==
    /\ Parsing
    /\ top.fn = "parse_atom"
    /\ \/ /\ top.at = "cond"
          /\ stack' = call_parse_expresion(
                 <<[at(top, "if_branch") EXCEPT !.cond = ret]>> \o Tail(stack), 0)
          /\ UNCHANGED <<ast_pos, nodes, ret>>
       \/ /\ top.at = "if_branch"
          /\ peak = "Else"
          /\ ast_pos' = consume(ast_pos)
          /\ stack' = call_parse_expresion(
                 <<[at(top, "else_branch") EXCEPT !.if_branch = ret]>> \o Tail(stack), 0)
          /\ UNCHANGED <<nodes, ret>>
       \/ /\ top.at = "if_branch"
          /\ peak # "Else"
          /\ return_node(if_node(top.cond, ret, None, ast_pos))
          /\ UNCHANGED ast_pos
       \/ /\ top.at = "else_branch"
          /\ return_node(if_node(top.cond, top.if_branch, ret, ast_pos))
          /\ UNCHANGED ast_pos
    /\ UNCHANGED <<pc, lexer_vars, definitions, round_vars>>

\* push_statement putting the statement first.
push_statement_front(statements, idx) == <<idx>> \o statements

\* push_statement pushing the statement twice.
push_statement_twice(statements, idx) == Append(Append(statements, idx), idx)

\* statements.push(idx) in the loop of the LBrace arm.
push_statement(statements, idx) == Append(statements, idx)

\* The LBrace arm of parse_atom: the loop over the statements, then the
\* consume of the RBrace, which panics when the tokens have run out.
parse_atom_block ==
    /\ Parsing
    /\ top.fn = "parse_atom"
    /\ \/ /\ top.at = "block"
          /\ peak \notin {"none", "RBrace"}
          /\ stack' = call_parse_expresion(<<at(top, "statement")>> \o Tail(stack), 0)
          /\ UNCHANGED <<pc, ast_pos, nodes, ret>>
       \/ /\ top.at = "block"
          /\ peak = "RBrace"
          /\ ast_pos' = consume(ast_pos)
          /\ return_node([blank EXCEPT !.kind = "Block",
                 !.statements = top.statements,
                 !.span = atom_span(consume(ast_pos))])
          /\ UNCHANGED pc
       \/ /\ top.at = "block"
          /\ peak = "none"
          /\ pc' = "ast_panic"
          /\ UNCHANGED <<ast_pos, nodes, stack, ret>>
       \/ /\ top.at = "statement"
          /\ stack' = <<[at(top, "block") EXCEPT
                            !.statements = push_statement(top.statements, ret)]>>
                       \o Tail(stack)
          /\ UNCHANGED <<pc, ast_pos, nodes, ret>>
    /\ UNCHANGED <<lexer_vars, definitions, round_vars>>

\* The Return arm of parse_atom after its call of parse_expresion.
parse_atom_return ==
    /\ Parsing
    /\ top.fn = "parse_atom"
    /\ top.at = "return"
    /\ return_node([blank EXCEPT !.kind = "Return", !.expr = ret,
           !.span = atom_span(ast_pos)])
    /\ UNCHANGED <<pc, lexer_vars, ast_pos, definitions, round_vars>>

\* parse_binary_op: the loop up to its call of parse_atom or its return of
\* lhs, and the fold once parse_atom has returned rhs.
parse_binary_op ==
    /\ Parsing
    /\ top.fn = "parse_binary_op"
    /\ \/ /\ top.at = "loop"
          /\ IF op_precedence(peak) = 0 \/ op_precedence(peak) < top.precedence
             THEN /\ ret' = top.lhs
                  /\ stack' = Tail(stack)
                  /\ UNCHANGED ast_pos
             ELSE /\ ast_pos' = consume(ast_pos)
                  /\ stack' = <<Frame("parse_atom", "start"),
                                [at(top, "rhs") EXCEPT !.op = peak]>> \o Tail(stack)
                  /\ UNCHANGED ret
          /\ UNCHANGED <<pc, nodes>>
       \/ /\ top.at = "rhs"
          /\ IF in_arena(top.lhs) /\ in_arena(ret)
             THEN /\ nodes' = Append(nodes, [blank EXCEPT !.kind = "BinaryOp",
                         !.lhs = top.lhs, !.rhs = ret, !.op = top.op,
                         !.span = <<get(top.lhs).span[1], get(ret).span[2]>>])
                  /\ stack' = <<[at(top, "loop") EXCEPT !.lhs = save_ast(nodes)]>>
                               \o Tail(stack)
                  /\ UNCHANGED pc
             ELSE /\ pc' = "ast_panic"
                  /\ UNCHANGED <<nodes, stack>>
          /\ UNCHANGED <<ast_pos, ret>>
    /\ UNCHANGED <<lexer_vars, definitions, round_vars>>

ast_parse_step ==
    \/ parse_program
    \/ parse_expresion
    \/ parse_atom
    \/ parse_atom_if
    \/ parse_atom_block
    \/ parse_atom_return
    \/ parse_binary_op

----------------------------------------------------------------------------
(* pretty.rs: the printer, for the node kinds ast.rs constructs.           *)

Panic == "PANIC"

\* " ".repeat(n)
RECURSIVE repeat_space(_)
repeat_space(n) == IF n <= 0 THEN <<>> ELSE <<" ">> \o repeat_space(n - 1)

\* Printer::print_op: the text pushed, or the panic of its last arm.
print_op(op) ==
    CASE op = "Plus" -> <<"+">>
      [] op = "Minus" -> <<"-">>
      [] op = "Multiply" -> <<"*">>
      [] op = "Divide" -> <<"/">>
      [] op = "Equal" -> <<"=">>
      [] op = "ColonEqual" -> <<":", "=">>
      [] op = "EqualEqual" -> <<"=", "=">>
      [] op = "NotEqual" -> <<"!", "=">>
      [] op = "LessThan" -> <<"<">>
      [] op = "GreaterThan" -> <<">">>
      [] op = "LessThanOrEqual" -> <<"<", "=">>
      [] op = "GreaterThanOrEqual" -> <<">", "=">>
      [] OTHER -> <<Panic>>

\* The text resolve gives, or the text printed in its place.
print_symbol(table, s, missing) ==
    IF s \in 1..Len(table) THEN resolve(table, s) ELSE missing

RECURSIVE print_node(_, _, _, _)
RECURSIVE print_statements(_, _, _, _)

\* The loop of the Block arm: each statement, then a newline.
print_statements(arena, table, statements, indent) ==
    IF statements = <<>> THEN <<>>
    ELSE print_node(arena, table, Head(statements), indent) \o <<"\n">>
         \o print_statements(arena, table, Tail(statements), indent)

\* Printer::print_node: the text it pushes for node idx.
print_node(arena, table, idx, indent) ==
    LET node == arena[idx + 1]
    IN  CASE node.kind = "BinaryOp" ->
               print_node(arena, table, node.lhs, indent) \o <<" ">>
               \o print_op(node.op) \o <<" ">>
               \o print_node(arena, table, node.rhs, indent + 2)
          [] node.kind = "Block" ->
               <<"{", "\n">> \o repeat_space(indent + 2)
               \o print_statements(arena, table, node.statements, indent + 2)
               \o repeat_space(indent) \o <<"}">>
          [] node.kind = "If" ->
               <<"i", "f", " ">> \o print_node(arena, table, node.cond, indent)
               \o <<" ">> \o print_node(arena, table, node.if_branch, indent)
               \o (IF node.else_branch # None
                   THEN <<" ", "e", "l", "s", "e", " ">>
                        \o print_node(arena, table, node.else_branch, indent)
                   ELSE <<>>)
          [] node.kind = "Error" -> <<"<", "E", "r", "r", "o", "r", ">">>
          [] node.kind = "Identifier" ->
               print_symbol(table, node.sym, <<"<", "U", "n", "k", "n", "o", "w",
                   "n", " ", "i", "d", "e", "n", "t", "i", "f", "i", "e", "r", ">">>)
          [] node.kind = "Number" ->
               print_symbol(table, node.sym, <<"<", "U", "n", "k", "n", "o", "w",
                   "n", " ", "n", "u", "m", "b", "e", "r", ">">>)
          [] node.kind = "Return" ->
               <<"r", "e", "t", "u", "r", "n", " ">>
               \o print_node(arena, table, node.expr, indent)

RECURSIVE print_definitions(_, _, _)
\* The loop of print: each definition at indent 0, then a newline.
print_definitions(arena, table, defs) ==
    IF defs = <<>> THEN <<>>
    ELSE print_node(arena, table, Head(defs), 0) \o <<"\n">>
         \o print_definitions(arena, table, Tail(defs))

panics(text) == \E k \in 1..Len(text) : text[k] = Panic

\* pretty::print(&module, &interner), as main.rs calls it on the Module.
print ==
    /\ pc = "parsed"
    /\ LET text == print_definitions(nodes, interner, definitions)
       IN  IF panics(text)
           THEN pc' = "print_panic" /\ UNCHANGED buffer
           ELSE pc' = "printed" /\ buffer' = text
    /\ UNCHANGED <<lexer_vars, ast_vars, round, original>>

----------------------------------------------------------------------------
(* main.rs: token::parse, then ast::parse, then pretty::print.             *)

RECURSIVE tree(_, _, _)
\* The tree below node idx, spans left out and symbols resolved.
tree(arena, table, idx) ==
    LET node == arena[idx + 1]
    IN  CASE node.kind \in {"Number", "Identifier"} ->
               <<node.kind, resolve(table, node.sym)>>
          [] node.kind = "BinaryOp" ->
               <<node.kind, node.op, tree(arena, table, node.lhs),
                 tree(arena, table, node.rhs)>>
          [] node.kind = "If" ->
               <<node.kind, tree(arena, table, node.cond),
                 tree(arena, table, node.if_branch),
                 IF node.else_branch = None THEN <<>>
                 ELSE tree(arena, table, node.else_branch)>>
          [] node.kind = "Block" ->
               <<node.kind, [k \in 1..Len(node.statements) |->
                                tree(arena, table, node.statements[k])]>>
          [] node.kind = "Return" -> <<node.kind, tree(arena, table, node.expr)>>
          [] OTHER -> <<node.kind>>

\* The trees of the definitions of the Module.
module_trees == [k \in 1..Len(definitions) |-> tree(nodes, interner, definitions[k])]

\* ast::parse(tokens): Parser::new(tokens).parse_program() is entered.
ast_parse ==
    /\ pc = "scanned"
    /\ pc' = "parse"
    /\ ast_pos' = 0
    /\ nodes' = <<>>
    /\ definitions' = <<>>
    /\ stack' = <<Frame("parse_program", "loop")>>
    /\ ret' = 0
    /\ UNCHANGED <<lexer_vars, round_vars>>

\* token::parse on the text printed from the Module of the first pass.
rescan ==
    /\ pc = "printed"
    /\ round = 1
    /\ round' = 2
    /\ original' = [trees |-> module_trees,
                     clean |-> \A k \in 1..Len(nodes) : nodes[k].kind # "Error"]
    /\ pc' = "scan"
    /\ input' = buffer
    /\ pos' = 0
    /\ interner' = <<>>
    /\ state' = Start
    /\ tokens' = <<>>
    /\ UNCHANGED <<ast_vars, buffer>>

\* token::parse(input): Parser::new.
InitScan ==
    /\ pc = "scan"
    /\ input \in Sources \cup {MainSource}
    /\ pos = 0
    /\ interner = <<>>
    /\ state = Start
    /\ tokens = <<>>
    /\ ast_pos = 0
    /\ nodes = <<>>
    /\ definitions = <<>>
    /\ stack = <<>>
    /\ ret = 0
    /\ buffer = <<>>
    /\ round = 1
    /\ original = [trees |-> <<>>, clean |-> TRUE]

\* The interner of the token sequences given to ast::parse directly.
TokenTexts ==
    << <<"x">>, <<"1">>, <<"@">>, <<"0">>, <<"r", "e", "s">>, <<"3">>, <<"2">>,
       <<"1", "0">> >>

T(kind) == [kind |-> kind, sym |-> 0]
Id(s) == [kind |-> "Identifier", sym |-> s]
Num(s) == [kind |-> "Number", sym |-> s]

\* The tokens the bounded token sequences are drawn from.
TokenAlphabet ==
    {Id(1), Num(2), [kind |-> "Unknown", sym |-> 3], T("If"), T("Else"),
     T("LBrace"), T("RBrace"), T("Return"), T("Plus"), T("Multiply"), T("Dot")}

\* if x > n { return x } else { return 0 }
IfTokens(n) ==
    <<T("If"), Id(1), T("GreaterThan"), Num(n), T("LBrace"), T("Return"), Id(1),
      T("RBrace"), T("Else"), T("LBrace"), T("Return"), Num(4), T("RBrace")>>

\* if x > 1 { return x } else { return 0 }
IfElseTokens == IfTokens(2)

\* The tokens of MainSource: res := 3*if x >10 { return x} else { return 0 } + 2
MainTokens ==
    <<Id(5), T("ColonEqual"), Num(6), T("Multiply")>> \o IfTokens(8)
    \o <<T("Plus"), Num(7)>>

\* x + 1 * x . 1 = x
FoldTokens ==
    <<Id(1), T("Plus"), Num(2), T("Multiply"), Id(1), T("Dot"), Num(2),
      T("Equal"), Id(1)>>

\* { x 1 + x { } }
BlockTokens ==
    <<T("LBrace"), Id(1), Num(2), T("Plus"), Id(1), T("LBrace"), T("RBrace"),
      T("RBrace")>>

with_spans(s) ==
    [k \in 1..Len(s) |-> [kind |-> s[k].kind, sym |-> s[k].sym, span |-> <<k - 1, k>>]]

TokenSequences ==
    UNION {[1..n -> TokenAlphabet] : n \in 0..MaxTokens} \cup {IfElseTokens, MainTokens, FoldTokens, BlockTokens}

\* ast::parse(tokens): Parser::new(tokens), parse_program entered.
InitParse ==
    /\ pc = "parse"
    /\ input = <<>>
    /\ pos = 0
    /\ interner = TokenTexts
    /\ state = Eof
    /\ \E s \in TokenSequences : tokens = with_spans(s)
    /\ ast_pos = 0
    /\ nodes = <<>>
    /\ definitions = <<>>
    /\ stack = <<Frame("parse_program", "loop")>>
    /\ ret = 0
    /\ buffer = <<>>
    /\ round = 1
    /\ original = [trees |-> <<>>, clean |-> TRUE]

\* The scanner alone.
Init == InitScan

Next == next

Spec == Init /\ [][Next]_vars

\* The parser alone.
NextParse == ast_parse_step

SpecParse == InitParse /\ [][NextParse]_vars

FairSpecParse == SpecParse /\ WF_vars(NextParse)

\* main.rs from a source text or from a token sequence, and the second pass
\* over the text it printed.
InitMain == InitScan \/ InitParse

NextMain == next \/ ast_parse \/ ast_parse_step \/ print \/ rescan

SpecMain == InitMain /\ [][NextMain]_vars

----------------------------------------------------------------------------
(* The claims.                                                             *)

\* C1: for every source text the scan reaches Eof and returns its tokens
\* and interner; it never panics.
C1_ScanNeverPanics == pc # "token_panic"

\* C2: for every token sequence ast::parse returns a Module; it never
\* panics, also when the tokens end after an operator, after `return`,
\* after an `if` condition or inside an unclosed block.
C2_ParseNeverPanics == pc # "ast_panic"

\* The child indexes a node holds.
children(node) ==
    CASE node.kind = "BinaryOp" -> {node.lhs, node.rhs}
      [] node.kind = "If" ->
           {node.cond, node.if_branch}
           \cup (IF node.else_branch = None THEN {} ELSE {node.else_branch})
      [] node.kind = "Block" -> {node.statements[k] : k \in 1..Len(node.statements)}
      [] node.kind = "Return" -> {node.expr}
      [] OTHER -> {}

\* C3: at every point of a parse, every child index held by the node at
\* arena index i is an index below i.
C3_ChildrenBelowParent ==
    \A i \in 0..(Len(nodes) - 1) : \A c \in children(get(i)) : 0 <= c /\ c < i

C3_Witness ==
    /\ pc = "parsed"
    /\ \E i \in 0..(Len(nodes) - 1) : get(i).kind = "BinaryOp"
    /\ \E i \in 0..(Len(nodes) - 1) : get(i).kind = "If" /\ get(i).else_branch # None
    /\ \E i \in 0..(Len(nodes) - 1) : get(i).kind = "Block" /\ get(i).statements # <<>>
    /\ \E i \in 0..(Len(nodes) - 1) : get(i).kind = "Return"

\* C4: a tree without Error nodes, printed, scanned and parsed again, comes
\* back as a structurally equal tree: the second pass ends with a Module,
\* and its trees are those of the first.
C4_RoundTrip ==
    (round = 2 /\ original.clean /\ pc \notin {"scan", "scanned", "parse"})
        => (pc \in {"parsed", "printed"} /\ module_trees = original.trees)

\* C5: every token has span start < end <= length of the input, and each
\* token ends at or before the start of the next.
C5_SpansOrdered ==
    /\ \A k \in 1..Len(tokens) :
           tokens[k].span[1] < tokens[k].span[2] /\ tokens[k].span[2] <= Len(input)
    /\ \A k \in 1..(Len(tokens) - 1) : tokens[k].span[2] <= tokens[k + 1].span[1]

C5_Witness ==
    /\ pc = "scanned"
    /\ Len(tokens) >= 2
    /\ \E k \in 1..(Len(tokens) - 1) : tokens[k].span[2] < tokens[k + 1].span[1]

\* The tokens whose span holds offset o.
covering(o) == {k \in 1..Len(tokens) : tokens[k].span[1] <= o /\ o < tokens[k].span[2]}

\* Offset o lies in a comment: from a `;` outside every token through the
\* next newline.
in_comment(o) ==
    \E j \in 0..o :
        /\ input[j + 1] = ";"
        /\ covering(j) = {}
        /\ \A m \in j..(o - 1) : input[m + 1] # "\n"

\* C6: after a scan, every offset inside no token span is whitespace or
\* part of a comment, and every other offset is inside exactly one span.
C6_SpansTile ==
    pc = "scanned" =>
        \A o \in 0..(Len(input) - 1) :
            \/ Cardinality(covering(o)) = 1
            \/ /\ covering(o) = {}
               /\ (input[o + 1] \in {" ", "\n", "\t"} \/ in_comment(o))

C6_Witness ==
    /\ pc = "scanned"
    /\ Len(tokens) >= 2
    /\ \E o \in 0..(Len(input) - 1) : covering(o) = {}

\* A call of parse_atom is about to run.
AtomCalled == pc = "parse" /\ stack # <<>> /\ top.fn = "parse_atom" /\ top.at = "start"

\* The iterations of the loop of parse_program begun so far.
Iterations ==
    Len(definitions)
    + (IF stack # <<>> /\ ~(Len(stack) = 1 /\ top.at = "loop") THEN 1 ELSE 0)

\* C7: a call of parse_atom moves the cursor on by at least one token (or
\* panics in consume) and nothing moves it back, the loop of parse_program
\* begins at most Len(tokens) iterations, and the parse stops.
C7_ParseTerminates ==
    /\ [][/\ (AtomCalled /\ pc' # "ast_panic") => ast_pos' >= ast_pos + 1
          /\ ast_pos' >= ast_pos]_vars
    /\ [](Iterations <= Len(tokens))
    /\ <>(pc \in {"parsed", "ast_panic"})

C7_Witness ==
    /\ pc = "parsed"
    /\ Len(tokens) >= 2
    /\ Len(definitions) = Len(tokens)

\* The token kinds parse_atom has an arm for.
AtomStart == {"Number", "Identifier", "If", "LBrace", "Return"}

\* parse_atom is about to run on a token of another kind.
AtomOther ==
    /\ AtomCalled
    /\ ast_pos < Len(tokens)
    /\ tokens[ast_pos + 1].kind \notin AtomStart

\* Every definition is an Error node, one for each token.
ErrorPerToken ==
    /\ Len(definitions) = Len(tokens)
    /\ \A k \in 1..Len(definitions) : get(definitions[k]).kind = "Error"

\* C8 as claimed: n tokens of kinds other than Number, Identifier, If,
\* LBrace and Return at top level yield n Error definitions.
C8_Original ==
    (pc = "parsed" /\ \A k \in 1..Len(tokens) : tokens[k].kind \notin AtomStart)
        => ErrorPerToken

\* C8: on a token that is none of Number, Identifier, If, LBrace, Return,
\* parse_atom consumes that one token and appends one Error node, which it
\* returns; n such tokens at top level, none of them an operator of the
\* table of parse_binary_op, yield n Error definitions; the single token
\* Unknown("@") yields one Error node and the cursor at the end.
C8_ErrorNodes ==
    /\ [][AtomOther =>
            /\ ast_pos' = ast_pos + 1
            /\ nodes' = Append(nodes, [blank EXCEPT !.span = <<ast_pos + 1, ast_pos + 2>>])
            /\ ret' = Len(nodes)
            /\ stack' = Tail(stack)]_vars
    /\ []((/\ pc = "parsed"
           /\ \A k \in 1..Len(tokens) :
                  tokens[k].kind \notin AtomStart /\ op_precedence(tokens[k].kind) = 0)
          => ErrorPerToken)
    /\ []((pc = "parsed" /\ Len(tokens) = 1 /\ tokens[1].kind = "Unknown")
          => (Len(nodes) = 1 /\ nodes[1].kind = "Error" /\ ast_pos = 1
              /\ definitions = <<0>>))

C8_Witness ==
    /\ pc = "parsed"
    /\ Len(tokens) >= 2
    /\ \A k \in 1..Len(tokens) :
           tokens[k].kind \notin AtomStart /\ op_precedence(tokens[k].kind) = 0
    /\ \E k \in 1..Len(tokens) : tokens[k].kind = "Unknown"
    /\ ErrorPerToken

\* C9: a comment ends at its newline: once the newline is consumed the
\* scanner is no longer in InComment.
C9_CommentEndsAtNewline ==
    state.tag = "InComment" =>
        \A m \in (state.start + 1)..pos : input[m] # "\n"

\* The states that accumulate a token.
Pending ==
    {"InNumber", "InDecimal", "InIdentifier", "InOperator", "InDelimiter",
     "InText", "InUnknown"}

\* C10: when the input ends in a state that accumulates a token, one token
\* is appended whose span runs from the state's start to the end of the
\* input and the state becomes Eof; in Eof no token is appended and the
\* position stays.
C10_FlushAtEof ==
    /\ [][(pc = "scan" /\ pos = Len(input) /\ state.tag \in Pending) =>
            /\ Len(tokens') = Len(tokens) + 1
            /\ SubSeq(tokens', 1, Len(tokens)) = tokens
            /\ tokens'[Len(tokens')].span = <<state.start, Len(input)>>
            /\ state' = Eof]_vars
    /\ [][state = Eof => (tokens' = tokens /\ pos' = pos /\ state' = Eof)]_vars

C10_Witness ==
    /\ pc = "scanned"
    /\ state = Eof
    /\ Len(tokens) >= 2
    /\ tokens[Len(tokens)].kind = "Text"
    /\ tokens[Len(tokens)].span[2] = Len(input)

\* The operators of the table of parse_binary_op.
BinaryOperators ==
    {"ColonEqual", "Equal", "Plus", "Minus", "Multiply", "Divide", "LessThan",
     "GreaterThan", "LessThanOrEqual", "GreaterThanOrEqual", "EqualEqual",
     "NotEqual", "Dot", "Arrow", "ColonColon"}

\* The tokens are a0 op1 a1 ... opn an: Numbers and Identifiers with an
\* operator of the table between each two.
Alternating ==
    /\ Len(tokens) % 2 = 1
    /\ \A k \in 1..Len(tokens) :
           IF k % 2 = 1 THEN tokens[k].kind \in {"Number", "Identifier"}
           ELSE tokens[k].kind \in BinaryOperators

RECURSIVE left_fold(_)
\* The left-nested fold of the first k tokens of a0 op1 a1 ... opn an.
left_fold(k) ==
    IF k = 1 THEN <<tokens[1].kind, resolve(interner, tokens[1].sym)>>
    ELSE <<"BinaryOp", tokens[k - 1].kind, left_fold(k - 2),
           <<tokens[k].kind, resolve(interner, tokens[k].sym)>> >>

\* C11: the tokens a0 op1 a1 ... opn an parse without a panic to exactly
\* one definition, the left-nested fold (((a0 op1 a1) op2 a2) ... opn an),
\* whatever the precedences of the operators.
C11_LeftFold ==
    Alternating =>
        /\ pc # "ast_panic"
        /\ pc = "parsed" =>
               /\ Len(definitions) = 1
               /\ tree(nodes, interner, definitions[1]) = left_fold(Len(tokens))

C11_Witness ==
    /\ pc = "parsed"
    /\ Alternating
    /\ Len(tokens) >= 7
    /\ \E k \in 1..Len(tokens) : \E j \in (k + 1)..Len(tokens) :
           /\ tokens[k].kind \in BinaryOperators
           /\ tokens[j].kind \in BinaryOperators
           /\ op_precedence(tokens[j].kind) > op_precedence(tokens[k].kind)

\* The source text of token k.
span_text(k) == SubSeq(input, tokens[k].span[1] + 1, tokens[k].span[2])

\* The tokens that carry a symbol.
Symbolic == {k \in 1..Len(tokens) : tokens[k].kind \in SymbolKinds}

\* C12: the symbol of every Number, Identifier, Text and Unknown token
\* resolves to the source text of its span, and two such tokens carry the
\* same symbol exactly when their source texts are equal.
C12_SymbolsResolve ==
    /\ \A k \in Symbolic : resolve(interner, tokens[k].sym) = span_text(k)
    /\ \A j, k \in Symbolic :
           (tokens[j].sym = tokens[k].sym) <=> (span_text(j) = span_text(k))

C12_Witness ==
    /\ pc = "scanned"
    /\ \E j, k \in Symbolic : j # k /\ tokens[j].sym = tokens[k].sym
    /\ \E j, k \in Symbolic : tokens[j].sym # tokens[k].sym

\* The frame of parse_atom is on top, at the given place.
AtomAt(place) == pc = "parse" /\ stack # <<>> /\ top.fn = "parse_atom" /\ top.at = place

\* The step appends one node to the arena.
Appends(node) == nodes' = Append(nodes, node)

\* The tree of if x > 1 { return x } else { return 0 }.
IfElseTree ==
    <<"If",
      <<"BinaryOp", "GreaterThan", <<"Identifier", <<"x">> >>, <<"Number", <<"1">> >> >>,
      <<"Block", << <<"Return", <<"Identifier", <<"x">> >> >> >> >>,
      <<"Block", << <<"Return", <<"Number", <<"0">> >> >> >> >> >>

\* C13: after the condition and the branch of an `if`, the If node has an
\* else_branch exactly when the next token is `else`: then the `else` is
\* consumed and the next expression becomes else_branch, otherwise the node
\* is saved without one; if x > 1 { return x } else { return 0 } yields the
\* one If with cond x > 1, if_branch Block[Return x], else_branch
\* Block[Return 0].
C13_IfElse ==
    /\ [][AtomAt("if_branch") =>
            IF peak = "Else"
            THEN /\ ast_pos' = ast_pos + 1
                 /\ nodes' = nodes
                 /\ Len(stack') = Len(stack) + 2
                 /\ stack'[1].fn = "parse_atom" /\ stack'[1].at = "start"
                 /\ stack'[2].fn = "parse_expresion"
                 /\ stack'[3].at = "else_branch"
                 /\ stack'[3].cond = top.cond
                 /\ stack'[3].if_branch = ret
            ELSE /\ ast_pos' = ast_pos
                 /\ \E node \in {nodes'[Len(nodes')]} :
                        /\ Appends(node)
                        /\ node.kind = "If"
                        /\ node.cond = top.cond
                        /\ node.if_branch = ret
                        /\ node.else_branch = None]_vars
    /\ [][AtomAt("else_branch") =>
            \E node \in {nodes'[Len(nodes')]} :
                /\ Appends(node)
                /\ node.kind = "If"
                /\ node.cond = top.cond
                /\ node.if_branch = top.if_branch
                /\ node.else_branch = ret
                /\ ret # None]_vars
    /\ []((pc = "parsed" /\ tokens = with_spans(IfElseTokens)) =>
            /\ Len(definitions) = 1
            /\ tree(nodes, interner, definitions[1]) = IfElseTree)

C13_Witness ==
    /\ pc = "parsed"
    /\ tokens = with_spans(IfElseTokens)
    /\ get(definitions[1]).kind = "If"
    /\ get(definitions[1]).else_branch # None

\* C14: when the next token of the loop of a block is `}` the block
\* consumes it and saves a Block of the statements parsed so far, in the
\* order parsed; another token starts the next statement, which is pushed
\* last; the statements of every Block are in source order; `{}` yields a
\* Block without statements.
C14_Block ==
    /\ [][(AtomAt("block") /\ peak = "RBrace") =>
            /\ ast_pos' = ast_pos + 1
            /\ Appends([blank EXCEPT !.kind = "Block", !.statements = top.statements,
                   !.span = <<ast_pos + 1, ast_pos + 2>>])
            /\ ret' = Len(nodes)
            /\ stack' = Tail(stack)]_vars
    /\ [][(AtomAt("block") /\ peak \notin {"RBrace", "none"}) =>
            /\ ast_pos' = ast_pos
            /\ nodes' = nodes
            /\ stack'[3] = [top EXCEPT !.at = "statement"]]_vars
    /\ [][AtomAt("statement") =>
            /\ stack' = <<[top EXCEPT !.at = "block",
                               !.statements = Append(top.statements, ret)]>>
                        \o Tail(stack)
            /\ nodes' = nodes]_vars
    /\ [](\A i \in 0..(Len(nodes) - 1) :
            get(i).kind = "Block" =>
                \A k \in 1..(Len(get(i).statements) - 1) :
                    get(i).statements[k] < get(i).statements[k + 1])
    /\ []((/\ pc = "parsed"
           /\ Len(tokens) = 2
           /\ tokens[1].kind = "LBrace"
           /\ tokens[2].kind = "RBrace") =>
            /\ Len(nodes) = 1
            /\ nodes[1].kind = "Block"
            /\ nodes[1].statements = <<>>
            /\ definitions = <<0>>)

C14_Witness ==
    /\ pc = "parsed"
    /\ \E i \in 0..(Len(nodes) - 1) :
           get(i).kind = "Block" /\ Len(get(i).statements) >= 3
    /\ \E i \in 0..(Len(nodes) - 1) :
           get(i).kind = "Block" /\ get(i).statements = <<>>

\* The Number tokens.
Numbers == {k \in 1..Len(tokens) : tokens[k].kind = "Number"}

\* The interned text of token k.
text_of(k) == resolve(interner, tokens[k].sym)

\* The places of the dots of a text.
Dots(text) == {i \in 1..Len(text) : text[i] = "."}

\* A first digit, then characters of the given set, with one `.` at most.
NumberText(text, others) ==
    /\ Len(text) >= 1
    /\ is_numeric(text[1])
    /\ \A i \in 1..Len(text) : is_numeric(text[i]) \/ text[i] \in others
    /\ Cardinality(Dots(text)) <= 1

\* C15 as stated: the text of every Number token is digits, optionally
\* followed by a single `.` and digits, with no other character.
C15_Original == \A k \in Numbers : NumberText(text_of(k), {"."})

\* C15: the text of every Number token starts with a digit and goes on with
\* digits and `_`, with one `.` at most; no letter and no second `.` is
\* part of it.
C15_NumberText == \A k \in Numbers : NumberText(text_of(k), {".", "_"})

C15_Witness ==
    /\ pc = "scanned"
    /\ \E k \in Numbers :
           /\ Dots(text_of(k)) # {}
           /\ \E i \in 1..Len(text_of(k)) : text_of(k)[i] = "_"
    /\ \E k \in Numbers : k < Len(tokens) /\ tokens[k + 1].kind = "Dot"

\* The characters the run of InUnknown is said to end at.
UnknownEnds(c) ==
    \/ is_alphanumeric(c)
    \/ is_whitespace(c)
    \/ c \in OperatorChars \cup DelimiterChars \cup {"\"", ";"}

\* The Unknown tokens of the state InUnknown: the run of InOperator starts
\* with an operator character, the run of InUnknown never does.
FromInUnknown ==
    {k \in 1..Len(tokens) :
        /\ tokens[k].kind = "Unknown"
        /\ span_text(k) # <<>>
        /\ span_text(k)[1] \notin OperatorChars}

\* C16: the text of every Unknown token of the state InUnknown has no
\* alphanumeric, whitespace, operator, delimiter, quote or semicolon
\* character, and its span ends before the first such character.
C16_UnknownRun ==
    \A k \in FromInUnknown :
        /\ \A i \in 1..Len(text_of(k)) : ~UnknownEnds(text_of(k)[i])
        /\ \A i \in 1..Len(span_text(k)) : ~UnknownEnds(span_text(k)[i])

\* A `!=` at place p of the input, between alphanumeric characters or the
\* ends of the input.
NotEqualAt(p) ==
    /\ p + 1 <= Len(input)
    /\ input[p] = "!"
    /\ input[p + 1] = "="
    /\ p = 1 \/ is_alphanumeric(input[p - 1])
    /\ p + 1 = Len(input) \/ is_alphanumeric(input[p + 2])

\* C17: outside texts and comments, a `!=` of the source is scanned as one
\* NotEqual token that spans its two characters.
C17_NotEqualScanned ==
    (/\ pc = "scanned"
     /\ \A i \in 1..Len(input) : input[i] \notin {"\"", ";"}) =>
        \A p \in 1..Len(input) :
            NotEqualAt(p) =>
                \E k \in 1..Len(tokens) :
                    /\ tokens[k].kind = "NotEqual"
                    /\ tokens[k].span = <<p - 1, p + 1>>

\* C18: the cursor never decreases and a step moves it by one token at
\* most, never past the end; when parse returns, the cursor is the number
\* of tokens and the definitions are in source order, in the arena and by
\* the token their span starts at.
C18_Cursor ==
    /\ [][ast_pos' \in {ast_pos, ast_pos + 1}]_vars
    /\ [](ast_pos <= Len(tokens))
    /\ [](pc = "parsed" =>
            /\ ast_pos = Len(tokens)
            /\ \A k \in 1..(Len(definitions) - 1) :
                   /\ definitions[k] < definitions[k + 1]
                   /\ get(definitions[k]).span[1] < get(definitions[k + 1]).span[1])

C18_Witness ==
    /\ pc = "parsed"
    /\ Len(tokens) >= 3
    /\ ast_pos = Len(tokens)
    /\ Len(definitions) >= 2

\* The loop of parse_binary_op is about to look at the next token.
BinaryOpLoop ==
    pc = "parse" /\ stack # <<>> /\ top.fn = "parse_binary_op" /\ top.at = "loop"

\* C19: every call of parse_expresion and of parse_binary_op has
\* precedence 0, and the loop of parse_binary_op goes on at every operator
\* of the table, whatever its precedence, and returns lhs at any other
\* token and at the end of the tokens.
C19_PrecedenceZero ==
    /\ [](\A i \in 1..Len(stack) : stack[i].precedence = 0)
    /\ [][BinaryOpLoop =>
            IF peak \in BinaryOperators
            THEN /\ ast_pos' = ast_pos + 1
                 /\ Len(stack') = Len(stack) + 1
                 /\ stack'[1].fn = "parse_atom"
                 /\ stack'[2] = [top EXCEPT !.at = "rhs", !.op = peak]
            ELSE /\ ast_pos' = ast_pos
                 /\ ret' = top.lhs
                 /\ stack' = Tail(stack)]_vars

\* The loop stands at an operator that binds less than the one it has
\* just folded.
C19_Witness ==
    /\ BinaryOpLoop
    /\ in_arena(top.lhs)
    /\ get(top.lhs).kind = "BinaryOp"
    /\ peak \in BinaryOperators
    /\ op_precedence(peak) < op_precedence(get(top.lhs).op)

\* C20: pretty::print never reaches the last arm of print_op: every
\* operator parse_binary_op stores in a BinaryOp node has an arm there.
C20_OperatorsPrintable ==
    /\ pc # "print_panic"
    /\ \A i \in 0..(Len(nodes) - 1) :
           get(i).kind = "BinaryOp" => print_op(get(i).op) # <<Panic>>

\* C21: in a Module that parse returns, the span of every node has
\* start < end <= the number of tokens.
C21_SpansWithinTokens ==
    pc = "parsed" =>
        \A i \in 0..(Len(nodes) - 1) :
            /\ get(i).span[1] < get(i).span[2]
            /\ get(i).span[2] <= Len(tokens)

\* The child slots of a node, in the order of its fields.
slots(node) ==
    CASE node.kind = "BinaryOp" -> <<node.lhs, node.rhs>>
      [] node.kind = "If" ->
           <<node.cond, node.if_branch>>
           \o (IF node.else_branch = None THEN <<>> ELSE <<node.else_branch>>)
      [] node.kind = "Block" -> node.statements
      [] node.kind = "Return" -> <<node.expr>>
      [] OTHER -> <<>>

\* The child slots that hold index idx: (node, slot) pairs.
SlotRefs(idx) ==
    {r \in (0..(Len(nodes) - 1)) \X (1..Len(nodes)) :
        r[2] <= Len(slots(get(r[1]))) /\ slots(get(r[1]))[r[2]] = idx}

\* The places of definitions that hold index idx.
DefinitionRefs(idx) == {k \in 1..Len(definitions) : definitions[k] = idx}

\* C22: in a Module that parse returns, every arena index is held exactly
\* once, by one place of definitions or by one child slot of one node, and
\* every index held by definitions or by a child slot is in the arena.
C22_ReferencedOnce ==
    pc = "parsed" =>
        /\ \A idx \in 0..(Len(nodes) - 1) :
               Cardinality(SlotRefs(idx)) + Cardinality(DefinitionRefs(idx)) = 1
        /\ \A k \in 1..Len(definitions) : in_arena(definitions[k])
        /\ \A i \in 0..(Len(nodes) - 1) :
               /\ Len(slots(get(i))) <= Len(nodes)
               /\ \A k \in 1..Len(slots(get(i))) : in_arena(slots(get(i))[k])

C22_Witness ==
    /\ pc = "parsed"
    /\ \E i \in 0..(Len(nodes) - 1) :
           get(i).kind = "Block" /\ Len(get(i).statements) >= 3
    /\ \E i \in 0..(Len(nodes) - 1) : get(i).kind = "BinaryOp"
    /\ \E idx \in 0..(Len(nodes) - 1) : SlotRefs(idx) = {} /\ DefinitionRefs(idx) # {}

====
